---- MODULE Spec2Model ----
(***************************************************************************)
(* Model of src/src/convert.rs: the schema/attribute extraction engine of  *)
(* the concourse JSON-schema generator.                                    *)
(*                                                                         *)
(* Strings are sequences of one-character strings, so that trimming,       *)
(* replacing, line splitting and the PEG type grammar are computed         *)
(* character by character, as the Rust code computes them.                 *)
(***************************************************************************)
EXTENDS Integers, Sequences, FiniteSets, TLC

VARIABLES
  typeText,   \* the &str handed to parse_type
  parsed,     \* what parse_type returned (or that it panicked)
  text,       \* the &str handed to clean_text
  cleaned,    \* what clean_text returned
  nodes,      \* the node list handed to text_to_markdown
  rendered,   \* what text_to_markdown returned (or that it panicked)
  doc,        \* the LitDocument handed to to_jsonschemas
  schemas     \* what to_jsonschemas returned (or that it panicked)

vars == <<typeText, parsed, text, cleaned, nodes, rendered, doc, schemas>>

(***************************************************************************)
(* Bounds of the explored inputs.                                          *)
(***************************************************************************)
MaxTypeLen == 4
MaxTextLen == 4
MaxNesting == 2
MaxEscLen == 3
MaxDepth == 2

(***************************************************************************)
(* Result markers.                                                         *)
(***************************************************************************)
NotRun == [t |-> "NotRun"]
Panic == [t |-> "Panic"]

(***************************************************************************)
(* Generic string helpers (Rust str methods).                              *)
(***************************************************************************)
\* the one element of a singleton set; {e(x) : x \in {v}} evaluates v once
\* and names its value x, as a let binding of the Rust code does
The(S) == CHOOSE x \in S : TRUE

RECURSIVE ConcatFrom(_, _)
ConcatFrom(ss, i) ==
  IF i > Len(ss) THEN <<>> ELSE ss[i] \o ConcatFrom(ss, i + 1)

Concat(ss) == The({ConcatFrom(v, 1) : v \in {ss}})

\* char::is_whitespace, restricted to the characters the model uses
WhiteSpace == {" ", "\n", "\r", "\t"}

RECURSIVE trim_start(_)
trim_start(s) ==
  IF s # <<>> /\ Head(s) \in WhiteSpace THEN trim_start(Tail(s)) ELSE s

RECURSIVE trim_end(_)
trim_end(s) ==
  IF s # <<>> /\ s[Len(s)] \in WhiteSpace
    THEN trim_end(SubSeq(s, 1, Len(s) - 1))
    ELSE s

trim(s) == trim_end(trim_start(s))

starts_with(s, p) == Len(s) >= Len(p) /\ SubSeq(s, 1, Len(p)) = p

\* str::replace: non-overlapping matches, scanned left to right
RECURSIVE replace(_, _, _)
replace(s, from, to) ==
  IF s = <<>> THEN <<>>
  ELSE IF starts_with(s, from)
    THEN to \o replace(SubSeq(s, Len(from) + 1, Len(s)), from, to)
    ELSE <<Head(s)>> \o replace(Tail(s), from, to)

RECURSIVE trim_start_matches(_, _)
trim_start_matches(s, c) ==
  IF s # <<>> /\ Head(s) = c THEN trim_start_matches(Tail(s), c) ELSE s

contains(s, c) == \E i \in 1..Len(s) : s[i] = c

\* str::split("\n"): always at least one piece
RECURSIVE split_nl(_, _)
split_nl(s, cur) ==
  IF s = <<>> THEN <<cur>>
  ELSE IF Head(s) = "\n" THEN <<cur>> \o split_nl(Tail(s), <<>>)
  ELSE split_nl(Tail(s), Append(cur, Head(s)))

\* str::lines(): split at "\n"; a final empty piece is dropped; a line
\* that was ended by "\n" also loses a "\r" in front of that "\n"
strip_cr(l) ==
  IF l # <<>> /\ l[Len(l)] = "\r" THEN SubSeq(l, 1, Len(l) - 1) ELSE l

lines(s) ==
  LET pieces == split_nl(s, <<>>)
      n == Len(pieces)
      kept == IF pieces[n] = <<>> THEN n - 1 ELSE n
  IN [i \in 1..kept |-> IF i < n THEN strip_cr(pieces[i]) ELSE pieces[i]]

(***************************************************************************)
(* PropertyType and the PEG grammar lit_type_parser.                       *)
(***************************************************************************)
Ref(name) == [t |-> "Ref", name |-> name]
ArrayOf(inner) == [t |-> "ArrayOf", inner |-> inner]
OneOf(types) == [t |-> "OneOf", types |-> types]
Dict == [t |-> "Dict"]
Constant(value) == [t |-> "Constant", value |-> value]

Lower == {"a", "b", "c", "d", "e", "f", "g", "h", "i", "j", "k", "l", "m",
          "n", "o", "p", "q", "r", "s", "t", "u", "v", "w", "x", "y", "z"}
Upper == {"A", "B", "C", "D", "E", "F", "G", "H", "I", "J", "K", "L", "M",
          "N", "O", "P", "Q", "R", "S", "T", "U", "V", "W", "X", "Y", "Z"}
Digit == {"0", "1", "2", "3", "4", "5", "6", "7", "8", "9"}
KeyOrValueChar == Lower \cup Upper \cup Digit \cup {".", "_"}

\* The backquote character (a TLA+ string cannot hold one literally).
Backtick == "backquote"

\* A rule's outcome: matched up to (not including) position pos, or failed.
Matched(val, pos) == [ok |-> TRUE, val |-> val, pos |-> pos]
Failed == [ok |-> FALSE, val |-> NotRun, pos |-> 0]

At(s, i, c) == i <= Len(s) /\ s[i] = c

\* rule _ = [' ' | '\n']*
RECURSIVE skip_ws(_, _)
skip_ws(s, i) ==
  IF i <= Len(s) /\ s[i] \in {" ", "\n"} THEN skip_ws(s, i + 1) ELSE i

\* rule key_or_value_string: one or more characters of the class, greedy
RECURSIVE kv_end(_, _)
kv_end(s, i) ==
  IF i <= Len(s) /\ s[i] \in KeyOrValueChar THEN kv_end(s, i + 1) ELSE i

key_or_value_string(s, i) ==
  The({IF e > i THEN Matched(SubSeq(s, i, e - 1), e) ELSE Failed :
         e \in {kv_end(s, i)}})

dictionary_type(s, i) ==
  IF ~At(s, i, "{") THEN Failed
  ELSE The({
    IF ~(k.ok /\ At(s, skip_ws(s, k.pos), ":")) THEN Failed
    ELSE The({IF v.ok /\ At(s, v.pos, "}")
                THEN Matched(Dict, v.pos + 1)
                ELSE Failed :
              v \in {key_or_value_string(
                       s, skip_ws(s, skip_ws(s, k.pos) + 1))}}) :
    k \in {key_or_value_string(s, skip_ws(s, i + 1))}})

constant_type(s, i) ==
  IF ~At(s, i, Backtick) THEN Failed
  ELSE The({IF v.ok /\ At(s, v.pos, Backtick)
              THEN Matched(Constant(v.val), v.pos + 1)
              ELSE Failed :
            v \in {key_or_value_string(s, i + 1)}})

ref_type(s, i) ==
  The({IF ~n.ok THEN Failed
       ELSE Matched(Ref(IF contains(n.val, ".")
                          THEN <<"s", "t", "r", "i", "n", "g">>
                          ELSE n.val),
                    n.pos) :
       n \in {key_or_value_string(s, i)}})

RECURSIVE lit_type(_, _), non_union_type(_, _), array_type(_, _),
          union_type(_, _), union_more(_, _, _)

\* ordered choice: the first alternative that matches
lit_type(s, i) ==
  The({IF u.ok THEN u ELSE non_union_type(s, i) : u \in {union_type(s, i)}})

non_union_type(s, i) ==
  The({IF a.ok THEN a
       ELSE The({IF d.ok THEN d
                 ELSE The({IF c.ok THEN c ELSE ref_type(s, i) :
                           c \in {constant_type(s, i)}}) :
                 d \in {dictionary_type(s, i)}}) :
       a \in {array_type(s, i)}})

\* mutant: whitespace is skipped inside the brackets
array_type_skipping(s, i) ==
  IF ~At(s, i, "[") THEN Failed
  ELSE The({IF inner.ok /\ At(s, skip_ws(s, inner.pos), "]")
              THEN Matched(ArrayOf(inner.val), skip_ws(s, inner.pos) + 1)
              ELSE Failed :
            inner \in {lit_type(s, skip_ws(s, i + 1))}})

array_type(s, i) ==
  IF ~At(s, i, "[") THEN Failed
  ELSE The({IF inner.ok /\ At(s, inner.pos, "]")
              THEN Matched(ArrayOf(inner.val), inner.pos + 1)
              ELSE Failed :
            inner \in {lit_type(s, i + 1)}})

\* the repetition of  non_union_type() ++ (_ "|" _)  after the first
\* element: acc holds the elements so far, i is the position after the
\* last one; a separator with no element after it is not consumed
union_more(s, i, acc) ==
  IF ~At(s, skip_ws(s, i), "|") THEN Matched(OneOf(acc), i)
  ELSE The({IF nxt.ok
              THEN union_more(s, nxt.pos, Append(acc, nxt.val))
              ELSE Matched(OneOf(acc), i) :
            nxt \in {non_union_type(s, skip_ws(s, skip_ws(s, i) + 1))}})

union_type(s, i) ==
  The({IF first.ok THEN union_more(s, first.pos, <<first.val>>) ELSE Failed :
       first \in {non_union_type(s, i)}})

\* the generated entry point: the rule has to consume the whole input
parse_type(s) ==
  The({IF r.ok /\ r.pos = Len(s) + 1 THEN r.val ELSE Panic :
       r \in {lit_type(s, 1)}})

(***************************************************************************)
(* LitNode and the markdown renderer.                                      *)
(***************************************************************************)
Text(t) == [kind |-> "Text", text |-> t]
Fn(name, args) == [kind |-> "Fn", name |-> name, args |-> args]
Comment == [kind |-> "Comment"]

clean_text(t) ==
  LET ls == lines(t)
      padded == [i \in 1..Len(ls) |-> <<" ">> \o trim(ls[i]) \o <<" ">>]
      marked == [i \in 1..Len(ls) |->
                   IF padded[i] = <<>> THEN <<"\n", "\n">> ELSE padded[i]]
  IN Concat(marked)

\* chars().position(|c| c != ' '): 0-based index of the first non-space
\* character, or -1 for None
RECURSIVE first_non_space(_, _)
first_non_space(l, i) ==
  IF i > Len(l) THEN -1
  ELSE IF l[i] # " " THEN i - 1
  ELSE first_non_space(l, i + 1)

RECURSIVE SetMin(_)
SetMin(S) ==
  LET x == CHOOSE y \in S : TRUE
  IN IF S = {x} THEN x
     ELSE LET m == SetMin(S \ {x}) IN IF x < m THEN x ELSE m

RECURSIVE join_nl(_)
join_nl(ls) ==
  IF ls = <<>> THEN <<>>
  ELSE IF Len(ls) = 1 THEN ls[1]
  ELSE ls[1] \o <<"\n">> \o join_nl(Tail(ls))

trim_codeblock(t) ==
  LET ls == lines(t)
      indents == {first_non_space(ls[i], 1) :
                    i \in {j \in 1..Len(ls) : Len(ls[j]) > 0}} \ {-1}
      trim_start_count == IF indents = {} THEN 0 ELSE SetMin(indents)
      pieces == split_nl(t, <<>>)
      cut == [i \in 1..Len(pieces) |->
                IF Len(pieces[i]) > trim_start_count
                  THEN SubSeq(pieces[i], trim_start_count + 1, Len(pieces[i]))
                  ELSE trim(pieces[i])]
  IN join_nl([i \in 1..Len(cut) |-> <<" ", " ", " ", " ">> \o cut[i]])

RECURSIVE raw_text(_)
raw_text(ns) ==
  Concat([i \in 1..Len(ns) |->
    IF ns[i].kind = "Text" THEN ns[i].text
    ELSE IF ns[i].kind = "Fn"
      THEN Concat([j \in 1..Len(ns[i].args) |-> raw_text(ns[i].args[j])])
      ELSE <<>>])

\* content.replace("\\{", "{").replace("\\}", "}")
unescape(content) ==
  replace(replace(content, <<"\\", "{">>, <<"{">>), <<"\\", "}">>, <<"}">>)

\* the indexing args[0], args[1] of text_to_markdown aborts when the call
\* has too few arguments
RECURSIVE text_to_markdown_panics(_)
text_to_markdown_panics(ns) ==
  \E i \in 1..Len(ns) :
    /\ ns[i].kind = "Fn"
    /\ LET name == ns[i].name
           args == ns[i].args
           inside(j) == text_to_markdown_panics(args[j])
       IN CASE name = "example-toggle" ->
                 Len(args) < 2 \/ inside(1) \/ inside(2)
            [] name = "reference" ->
                 \/ Len(args) = 2 /\ (inside(1) \/ inside(2))
                 \/ Len(args) = 1 /\ inside(1)
            [] name = "codeblock" -> Len(args) < 2
            [] name = "code" -> Len(args) < 1
            [] name \in {"bold", "warn"} -> Len(args) < 1 \/ inside(1)
            [] OTHER -> \E j \in 1..Len(args) : inside(j)

RECURSIVE text_to_markdown(_)
text_to_markdown(ns) ==
  LET piece(n) ==
        IF n.kind = "Text" THEN clean_text(n.text)
        ELSE IF n.kind = "Fn" THEN
          LET args == n.args
              md(j) == text_to_markdown(args[j])
          IN CASE n.name = "example-toggle" ->
                    <<"\n", "@", "e", "x", "a", "m", "p", "l", "e", " ">>
                      \o md(1) \o <<"\n">> \o md(2)
               [] n.name = "reference" ->
                    IF Len(args) = 2 THEN
                      <<"[">> \o md(2) \o <<"]", "(", "#">> \o md(1) \o <<")">>
                    ELSE IF Len(args) = 1 THEN
                      <<"[">> \o md(1) \o <<"]", "(", "#">> \o md(1) \o <<")">>
                    ELSE <<>>
               [] n.name = "codeblock" ->
                    <<"\n", "\n">> \o trim_codeblock(raw_text(args[2]))
                      \o <<"\n", "\n">>
               [] n.name = "code" ->
                    <<Backtick>> \o raw_text(args[1]) \o <<Backtick>>
               [] n.name = "bold" -> <<"*", "*">> \o md(1) \o <<"*", "*">>
               [] n.name = "warn" -> md(1)
               [] OTHER -> Concat([j \in 1..Len(args) |-> md(j)])
        ELSE <<>>
      content == Concat([i \in 1..Len(ns) |-> piece(ns[i])])
  IN unescape(content)

(***************************************************************************)
(* Attribute collector and schema tree walker.                             *)
(***************************************************************************)
IsSchemaFn(n) == n.kind = "Fn" /\ n.name \in {"schema", "schema-group"}
\* mutant: the optional form is not recognised as an attribute call
IsAttributeFn_required_only(n) ==
  n.kind = "Fn" /\ n.name = "required-attribute"

IsAttributeFn(n) ==
  n.kind = "Fn" /\ n.name \in {"required-attribute", "optional-attribute"}

\* HashMap<String, Property> built from a vector of pairs: a later pair
\* replaces an earlier one of the same key
NoProperties == [n \in {} |-> NotRun]

from_pairs(pairs) ==
  [n \in {pairs[i][1] : i \in 1..Len(pairs)} |->
     LET last == CHOOSE i \in 1..Len(pairs) :
                   /\ pairs[i][1] = n
                   /\ \A j \in (i + 1)..Len(pairs) : pairs[j][1] # n
     IN pairs[last][2]]

\* HashMap::extend: the incoming entries replace those already present
extend(props, incoming) ==
  [n \in DOMAIN props \cup DOMAIN incoming |->
     IF n \in DOMAIN incoming THEN incoming[n] ELSE props[n]]

schema_name_of(arg0) ==
  trim_start_matches(
    replace(
      replace(
        replace(
          replace(trim(text_to_markdown(arg0)), <<Backtick>>, <<"_">>),
          <<"-">>, <<"_">>),
        <<" ">>, <<"_">>),
      <<"_", "_">>, <<"_">>),
    "_")

type_name_of(args) == trim(text_to_markdown(args[2]))

convert_prop_panics(args) ==
  \/ Len(args) < 3
  \/ text_to_markdown_panics(args[1])
  \/ text_to_markdown_panics(args[2])
  \/ text_to_markdown_panics(args[3])
  \/ parse_type(replace(type_name_of(args), <<"-">>, <<"_">>)) = Panic

convert_prop(args, attribute_type) ==
  The({LET prop_name == trim(text_to_markdown(args[1]))
           is_list == starts_with(type_name, <<"[">>)
           documentation == args[3]
       IN <<prop_name,
            [required |-> attribute_type = "required-attribute",
             docs |-> trim(text_to_markdown(documentation)),
             type_name |-> parse_type(replace(type_name, <<"-">>, <<"_">>)),
             list |-> is_list]>> :
       type_name \in {type_name_of(args)}})

extend_child_properties(child_schemas, attributes) ==
  IF Cardinality(DOMAIN attributes) > 0
    THEN [i \in 1..Len(child_schemas) |->
            IF ~child_schemas[i].is_group_member
              THEN child_schemas[i]
              ELSE [child_schemas[i] EXCEPT
                      !.properties = extend(@, attributes)]]
    ELSE child_schemas

\* the guard of collect_attributes' third arm: any call that is no schema
\* declaration is searched for attributes
\* mutant: nested schema declarations are searched for attributes too
descends_for_attributes_everywhere(n) == TRUE

descends_for_attributes(n) == ~IsSchemaFn(n)

\* found_schemas: the call's own record, then extend(inner_schemas), then
\* extend(child_schemas)
\* mutant: the child schemas are appended before the inner schemas
found_schemas_children_first(own, inner_schemas, child_schemas) ==
  <<own>> \o child_schemas \o inner_schemas

found_schemas(own, inner_schemas, child_schemas) ==
  <<own>> \o inner_schemas \o child_schemas

\* the argument a schema call keeps its attributes in (1-based)
AttrArg(name) == IF name = "schema" THEN 2 ELSE 3

RECURSIVE collect_schemas_panics(_), collect_attributes_panics(_)

collect_schemas_panics(d) ==
  \E i \in 1..Len(d) :
    /\ d[i].kind = "Fn"
    /\ LET args == d[i].args
       IN IF IsSchemaFn(d[i])
            THEN \/ Len(args) < AttrArg(d[i].name)
                 \/ text_to_markdown_panics(args[1])
                 \/ collect_attributes_panics(args[AttrArg(d[i].name)])
                 \/ \E j \in 1..Len(args) : collect_schemas_panics(args[j])
          ELSE IF IsAttributeFn(d[i]) THEN FALSE
          ELSE \E j \in 1..Len(args) : collect_schemas_panics(args[j])

collect_attributes_panics(d) ==
  \E i \in 1..Len(d) :
    /\ d[i].kind = "Fn"
    /\ LET args == d[i].args
       IN IF IsAttributeFn(d[i])
            THEN \/ convert_prop_panics(args)
                 \/ \E j \in 1..Len(args) : collect_schemas_panics(args[j])
          ELSE IF descends_for_attributes(d[i])
            THEN \E j \in 1..Len(args) : collect_attributes_panics(args[j])
          ELSE FALSE

RECURSIVE collect_schemas(_), collect_attributes(_)

group_members_of(child_schemas) ==
  LET RECURSIVE pick(_)
      pick(cs) ==
        IF cs = <<>> THEN <<>>
        ELSE (IF Head(cs).is_group_member
                THEN <<Head(cs).schema_name>> ELSE <<>>) \o pick(Tail(cs))
  IN pick(child_schemas)

\* the arm of collect_schemas for a schema or schema-group call n, given
\* the result of collect_attributes on its attribute argument and the
\* concatenated results of collect_schemas on each of its arguments
schema_arm(n, collected, walked) ==
  LET schema_name == schema_name_of(n.args[1])
      attributes ==
        from_pairs([i \in 1..Len(collected) |-> collected[i].prop])
      inner_schemas ==
        Concat([i \in 1..Len(collected) |-> collected[i].inner])
      child_schemas == extend_child_properties(walked, attributes)
      group_members == group_members_of(child_schemas)
      has_group_memberes == Len(group_members) > 0
  IN found_schemas(
       [is_group_member |-> n.name = "schema-group",
        group_members |-> group_members,
        schema_name |-> schema_name,
        properties |-> IF has_group_memberes
                         THEN NoProperties
                         ELSE attributes],
       inner_schemas, child_schemas)

collect_schemas(d) ==
  LET walk(args) == Concat([j \in 1..Len(args) |-> collect_schemas(args[j])])
      found(n) ==
        IF n.kind # "Fn" THEN <<>>
        ELSE IF IsSchemaFn(n) THEN
          The({schema_arm(n, collected, walked) :
                 collected \in {collect_attributes(n.args[AttrArg(n.name)])},
                 walked \in {walk(n.args)}})
        ELSE IF IsAttributeFn(n) THEN <<>>
        ELSE walk(n.args)
  IN Concat([i \in 1..Len(d) |-> found(d[i])])

collect_attributes(d) ==
  LET found(n) ==
        IF n.kind # "Fn" THEN <<>>
        ELSE IF IsAttributeFn(n) THEN
          <<[prop |-> convert_prop(n.args, n.name),
             inner |-> Concat([j \in 1..Len(n.args) |->
                                 collect_schemas(n.args[j])])]>>
        ELSE IF descends_for_attributes(n) THEN
          Concat([j \in 1..Len(n.args) |-> collect_attributes(n.args[j])])
        ELSE <<>>
  IN Concat([i \in 1..Len(d) |-> found(d[i])])

to_jsonschemas(d) ==
  IF collect_schemas_panics(d)
    THEN Panic
    ELSE [t |-> "Ok", list |-> collect_schemas(d)]

(***************************************************************************)
(* Inputs.                                                                 *)
(***************************************************************************)
Strings(alphabet, maxLen) == UNION {[1..n -> alphabet] : n \in 0..maxLen}

Ok(v) == [t |-> "Ok", val |-> v]

\* type expressions: every string over the grammar's punctuation, one
\* identifier letter and the two skippable characters, and the examples
\* of the documentation
TypeAlphabet == {"a", ".", "|", "[", "]", "{", ":", "}", Backtick, " ", "\n"}

ExampleTypeTexts ==
  { <<"a">>, <<"a", ".", "b">>, <<"[", "a", "]">>,
    <<"[", "[", "a", "]", "]">>, <<"a", "|", "b">>,
    <<Backtick, "x", Backtick>>, <<"{", "k", ":", "v", "}">>,
    <<"a", " ", "|", " ", "b">>, <<"{", " ", "k", " ", ":", " ", "v", "}">>,
    <<"[", "a", " ", "|", "\n", "b", "]">>, <<"[", " ", "a", " ", "]">>,
    <<"{", "k", ":", "v", " ", "}">> }

TypeTexts == Strings(TypeAlphabet, MaxTypeLen) \cup ExampleTypeTexts

\* texts for clean_text
TextAlphabet == {"h", " ", "\n", "\r"}

ExampleTexts ==
  { <<" ", " ", "h", "i", " ", " ", "\n", "\n", " ", " ", "b", "y", "e", " ">> }

Texts == Strings(TextAlphabet, MaxTextLen) \cup ExampleTexts

(***************************************************************************)
(* parse_type applied to a type expression.                                *)
(***************************************************************************)
InitParse ==
  /\ typeText \in TypeTexts
  /\ parsed = NotRun
  /\ text = <<>> /\ cleaned = NotRun
  /\ nodes = <<>> /\ rendered = NotRun
  /\ doc = <<>> /\ schemas = NotRun

ParseType ==
  /\ parsed = NotRun
  /\ parsed' = parse_type(typeText)
  /\ UNCHANGED <<typeText, text, cleaned, nodes, rendered, doc, schemas>>

SpecParse == InitParse /\ [][ParseType]_vars

(***************************************************************************)
(* clean_text applied to a text.                                           *)
(***************************************************************************)
InitText ==
  /\ text \in Texts
  /\ cleaned = NotRun
  /\ typeText = <<>> /\ parsed = NotRun
  /\ nodes = <<>> /\ rendered = NotRun
  /\ doc = <<>> /\ schemas = NotRun

CleanText ==
  /\ cleaned = NotRun
  /\ cleaned' = Ok(clean_text(text))
  /\ UNCHANGED <<typeText, parsed, text, nodes, rendered, doc, schemas>>

SpecText == InitText /\ [][CleanText]_vars

(***************************************************************************)
(* text_to_markdown applied to a node list.                                *)
(***************************************************************************)
\* texts of backslashes and braces
EscAlphabet == {"\\", "{", "}"}

EscTexts == Strings(EscAlphabet, MaxEscLen) \ {<<>>}

\* a node list put inside each rendering function
Wrapped(l) ==
  { <<Fn("bold", <<l>>)>>,
    <<Fn("warn", <<l>>)>>,
    <<Fn("reference", <<l>>)>>,
    <<Fn("reference", <<l, l>>)>>,
    <<Fn("reference", <<l, l, l>>)>>,
    <<Fn("example-toggle", <<l, l>>)>>,
    <<Fn("one-of", <<l, l>>)>>,
    <<Fn("code", <<l>>)>>,
    <<Fn("codeblock", <<<<>>, l>>)>>,
    <<Comment>> \o l }

RECURSIVE RenderLists(_)
RenderLists(k) ==
  IF k = 0 THEN {<<Text(t)>> : t \in EscTexts}
  ELSE UNION {Wrapped(l) : l \in RenderLists(k - 1)}

\* calls that lack an argument the renderer indexes
ShortCalls ==
  { <<Fn("bold", <<>>)>>, <<Fn("warn", <<>>)>>, <<Fn("code", <<>>)>>,
    <<Fn("codeblock", <<<<>>>>)>>, <<Fn("example-toggle", <<<<>>>>)>>,
    <<Fn("one-of", <<<<Fn("bold", <<>>)>>>>)>> }

NodeLists == UNION {RenderLists(k) : k \in 0..MaxNesting} \cup ShortCalls

InitMarkdown ==
  /\ nodes \in NodeLists
  /\ rendered = NotRun
  /\ typeText = <<>> /\ parsed = NotRun
  /\ text = <<>> /\ cleaned = NotRun
  /\ doc = <<>> /\ schemas = NotRun

TextToMarkdown ==
  /\ rendered = NotRun
  /\ rendered' = IF text_to_markdown_panics(nodes)
                   THEN Panic
                   ELSE Ok(text_to_markdown(nodes))
  /\ UNCHANGED <<typeText, parsed, text, cleaned, nodes, doc, schemas>>

SpecMarkdown == InitMarkdown /\ [][TextToMarkdown]_vars

(***************************************************************************)
(* to_jsonschemas applied to a document.                                   *)
(*                                                                         *)
(* The documents are nests of schema declarations.  The path p of a        *)
(* declaration in the nest is part of its name and of the documentation of *)
(* its attributes, so every declaration and every attribute call of a      *)
(* document can be told from the others in the result.                     *)
(***************************************************************************)
NameArg(p) == <<Text(<<" ", "s", "-">> \o p \o <<"\n">>)>>
DocText(p) == Text(<<"d">> \o p)

AttrCall(kind, name, type, docs) ==
  Fn(kind, <<<<Text(name)>>, <<Text(type)>>, docs>>)

LeafSchema(p) ==
  Fn("schema",
     <<NameArg(p),
       <<AttrCall("required-attribute", <<"x">>, <<"a">>, <<DocText(p)>>)>>>>)

\* what a declaration at path p holds besides its nested declaration
AttrOpts(p) ==
  { <<>>,
    <<AttrCall("required-attribute", <<"x">>, <<"a">>, <<DocText(p)>>)>>,
    <<AttrCall("optional-attribute", <<"y">>, <<"[", "a", "-", "b", "]">>,
               <<DocText(p), LeafSchema(p \o <<"i">>)>>)>>,
    <<Fn("one-of",
         <<<<AttrCall("optional-attribute", <<"x">>, <<"a", "|", "b">>,
                      <<DocText(p)>>)>>>>)>>,
    <<Fn("required-attribute", <<<<Text(<<"x">>)>>, <<Text(<<"a">>)>>>>)>>,
    <<AttrCall("optional-attribute", <<"x">>, <<"a", " ", "b">>,
               <<DocText(p)>>)>> }

RECURSIVE Decls(_, _)
Decls(d, p) ==
  LET bodies ==
        {a \o c : a \in AttrOpts(p),
                  c \in {<<>>} \cup
                        (IF d = 0 THEN {}
                         ELSE {<<n>> : n \in Decls(d - 1, p \o <<"c">>)})}
  IN {Fn("schema", <<NameArg(p), b>>) : b \in bodies}
       \cup {Fn("schema-group", <<NameArg(p), <<Text(<<"k">>)>>, b>>) :
               b \in bodies}

\* documents with attribute calls, nested declarations, or too few
\* arguments in other places
OtherDocs ==
  LET x == <<Text(<<"x">>)>>
      a == <<Text(<<"a">>)>>
      short == Fn("required-attribute", <<x, a>>)
      badType == AttrCall("optional-attribute", <<"x">>, <<"[", " ", "a", "]">>,
                          <<DocText(<<"b">>)>>)
      good == AttrCall("required-attribute", <<"x">>, <<"a">>,
                       <<DocText(<<"g">>)>>)
  IN { <<>>,
       <<Text(<<"x">>), Comment>>,
       <<short>>,
       <<badType>>,
       <<good>>,
       <<Fn("one-of", <<<<short>>>>)>>,
       \* a malformed attribute call in the name argument
       <<Fn("schema", <<NameArg(<<"t">>) \o <<short>>, <<good>>>>)>>,
       \* ... in the argument of a group that is not its attribute argument
       <<Fn("schema-group", <<NameArg(<<"t">>), <<badType>>, <<good>>>>)>>,
       \* ... directly inside another attribute call
       <<Fn("schema",
            <<NameArg(<<"t">>),
              <<AttrCall("required-attribute", <<"y">>, <<"a">>,
                         <<short, badType>>)>>>>)>>,
       \* ... in a declaration inside an attribute call nobody converts
       <<AttrCall("required-attribute", <<"y">>, <<"a">>,
                  <<Fn("schema", <<NameArg(<<"t">>), <<short>>>>)>>)>>,
       \* ... in a declaration inside a converted attribute call
       <<Fn("schema",
            <<NameArg(<<"t">>),
              <<AttrCall("required-attribute", <<"y">>, <<"a">>,
                         <<Fn("schema",
                              <<NameArg(<<"i">>), <<badType>>>>)>>)>>>>)>>,
       \* a nested declaration in front of an attribute with an inner one
       <<Fn("schema",
            <<NameArg(<<"t">>),
              <<LeafSchema(<<"c">>),
                AttrCall("required-attribute", <<"y">>, <<"a">>,
                         <<LeafSchema(<<"i">>)>>)>>>>)>>,
       \* a nested declaration in the name argument, one below a function
       <<Fn("schema",
            <<NameArg(<<"t">>) \o <<LeafSchema(<<"n">>)>>,
              <<Fn("one-of", <<<<LeafSchema(<<"c">>)>>>>)>>>>)>>,
       \* two group members below one declaration
       <<Fn("schema",
            <<NameArg(<<"t">>),
              <<good,
                Fn("schema-group",
                   <<NameArg(<<"l">>), x,
                     <<AttrCall("optional-attribute", <<"x">>, <<"b">>,
                                <<DocText(<<"l">>)>>)>>>>),
                Fn("schema-group", <<NameArg(<<"r">>), x, <<>>>>),
                LeafSchema(<<"c">>)>>>>)>>,
       \* declarations and formatting calls that lack arguments
       <<Fn("schema", <<NameArg(<<"t">>)>>)>>,
       <<Fn("schema-group", <<NameArg(<<"t">>), x>>)>>,
       <<Fn("schema", <<>>)>>,
       <<Fn("schema", <<<<Fn("bold", <<>>)>>, <<>>>>)>>,
       <<Fn("schema",
            <<NameArg(<<"t">>),
              <<AttrCall("required-attribute", <<"y">>, <<"a">>,
                         <<Fn("code", <<>>)>>)>>>>)>> }

Docs ==
  {<<n>> : n \in Decls(MaxDepth, <<"t">>)}
    \cup {<<l, r>> : l \in Decls(0, <<"l">>), r \in Decls(0, <<"r">>)}
    \cup OtherDocs

InitSchemas ==
  /\ doc \in Docs
  /\ schemas = NotRun
  /\ typeText = <<>> /\ parsed = NotRun
  /\ text = <<>> /\ cleaned = NotRun
  /\ nodes = <<>> /\ rendered = NotRun

ToJsonschemas ==
  /\ schemas = NotRun
  /\ schemas' = to_jsonschemas(doc)
  /\ UNCHANGED <<typeText, parsed, text, cleaned, nodes, rendered, doc>>

SpecSchemas == InitSchemas /\ [][ToJsonschemas]_vars

(***************************************************************************)
(* Claims about parse_type (checked under SpecParse).                      *)
(***************************************************************************)
IsSkippable(c) == c \in {" ", "\n"}

\* position i lies after an opening brace that no closing brace has closed
InsideBraces(s, i) ==
  \E j \in 1..(i - 1) :
    s[j] = "{" /\ \A k \in (j + 1)..(i - 1) : s[k] # "}"

\* the run of skippable characters around position i touches a "|"
NextToBar(s, i) ==
  \/ \E j \in 1..(i - 1) :
       s[j] = "|" /\ \A k \in (j + 1)..i : IsSkippable(s[k])
  \/ \E j \in (i + 1)..Len(s) :
       s[j] = "|" /\ \A k \in i..(j - 1) : IsSkippable(s[k])

\* C5: parse_type returns the bare type for an expression without "|":
\* "a" gives Ref("a"), "a.b" gives Ref("string"), "[a]" gives
\* ArrayOf(Ref("a")), "[[a]]" gives ArrayOf(ArrayOf(Ref("a"))), a quoted x
\* gives Constant("x"), "{k:v}" gives Dict, and "a|b" gives
\* OneOf([Ref("a"), Ref("b")]); only an expression with "|" yields OneOf.
C5_BareTypeUnlessUnion ==
  parsed # NotRun =>
    /\ typeText = <<"a">> => parsed = Ref(<<"a">>)
    /\ typeText = <<"a", ".", "b">> =>
         parsed = Ref(<<"s", "t", "r", "i", "n", "g">>)
    /\ typeText = <<"[", "a", "]">> => parsed = ArrayOf(Ref(<<"a">>))
    /\ typeText = <<"[", "[", "a", "]", "]">> =>
         parsed = ArrayOf(ArrayOf(Ref(<<"a">>)))
    /\ typeText = <<Backtick, "x", Backtick>> => parsed = Constant(<<"x">>)
    /\ typeText = <<"{", "k", ":", "v", "}">> => parsed = Dict
    /\ typeText = <<"a", "|", "b">> =>
         parsed = OneOf(<<Ref(<<"a">>), Ref(<<"b">>)>>)
    /\ parsed.t = "OneOf" => contains(typeText, "|")

\* C8 as claimed: every type string with a space or newline outside a
\* dictionary form is rejected by parse_type.
C8_SkippableOnlyInDictionary ==
  parsed # NotRun =>
    ((\E i \in 1..Len(typeText) :
        IsSkippable(typeText[i]) /\ ~InsideBraces(typeText, i))
     => parsed = Panic)

\* C8 as amended: a type string with a space or newline that is neither
\* inside a dictionary form nor directly around the "|" of a union is
\* rejected by parse_type.
C8_SkippableOnlyInDictionaryOrAtBar ==
  parsed # NotRun =>
    ((\E i \in 1..Len(typeText) :
        /\ IsSkippable(typeText[i])
        /\ ~InsideBraces(typeText, i)
        /\ ~NextToBar(typeText, i))
     => parsed = Panic)

\* a string with a space inside array brackets has been rejected
C8_Witness ==
  /\ typeText = <<"[", " ", "a", " ", "]">>
  /\ parsed = Panic

(***************************************************************************)
(* Claims about clean_text (checked under SpecText).                       *)
(***************************************************************************)
\* the per-line mapping as documented
DocumentedLine(l) ==
  IF trim(l) = <<>> THEN <<"\n", "\n">> ELSE <<" ">> \o trim(l) \o <<" ">>

\* C6: clean_text maps each line on its own and concatenates the results:
\* a line that is empty after trimming becomes "\n\n", any other line
\* becomes space + trimmed line + space; so "  hi  \n\n  bye " becomes
\* " hi \n\n bye ".
C6_BlankLineBecomesParagraphBreak ==
  cleaned # NotRun =>
    /\ cleaned.val =
         Concat([i \in 1..Len(lines(text)) |-> DocumentedLine(lines(text)[i])])
    /\ text \in ExampleTexts =>
         cleaned.val = <<" ", "h", "i", " ", "\n", "\n", " ", "b", "y", "e", " ">>

(***************************************************************************)
(* Claims about text_to_markdown (checked under SpecMarkdown).             *)
(***************************************************************************)
\* the rendering of a node list with no unescaping anywhere
RECURSIVE Unescaped(_)
Unescaped(ns) ==
  LET piece(n) ==
        IF n.kind = "Text" THEN clean_text(n.text)
        ELSE IF n.kind = "Fn" THEN
          LET args == n.args
          IN CASE n.name = "example-toggle" ->
                    <<"\n", "@", "e", "x", "a", "m", "p", "l", "e", " ">>
                      \o Unescaped(args[1]) \o <<"\n">> \o Unescaped(args[2])
               [] n.name = "reference" ->
                    IF Len(args) = 2 THEN
                      <<"[">> \o Unescaped(args[2]) \o <<"]", "(", "#">>
                        \o Unescaped(args[1]) \o <<")">>
                    ELSE IF Len(args) = 1 THEN
                      <<"[">> \o Unescaped(args[1]) \o <<"]", "(", "#">>
                        \o Unescaped(args[1]) \o <<")">>
                    ELSE <<>>
               [] n.name = "codeblock" ->
                    <<"\n", "\n">> \o trim_codeblock(raw_text(args[2]))
                      \o <<"\n", "\n">>
               [] n.name = "code" ->
                    <<Backtick>> \o raw_text(args[1]) \o <<Backtick>>
               [] n.name = "bold" ->
                    <<"*", "*">> \o Unescaped(args[1]) \o <<"*", "*">>
               [] n.name = "warn" -> Unescaped(args[1])
               [] OTHER -> Concat([j \in 1..Len(args) |-> Unescaped(args[j])])
        ELSE <<>>
  IN Concat([i \in 1..Len(ns) |-> piece(ns[i])])

\* C9: text_to_markdown unescapes "\{" and "\}" exactly once, over the
\* complete rendered string: the result is one unescape pass over the
\* concatenation of the not yet unescaped renderings of all nodes, however
\* deeply the function calls are nested.
C9_UnescapedOnce ==
  rendered.t = "Ok" => rendered.val = unescape(Unescaped(nodes))

(***************************************************************************)
(* Claims about to_jsonschemas (checked under SpecSchemas).                *)
(*                                                                         *)
(* The operators below read the document itself: which declarations and    *)
(* attribute calls it holds, and where.                                    *)
(***************************************************************************)
DeclNames == {"schema", "schema-group"}
AttrNames == {"required-attribute", "optional-attribute"}

IsDecl(n) == n.kind = "Fn" /\ n.name \in DeclNames
IsAttr(n) == n.kind = "Fn" /\ n.name \in AttrNames

DeclName(n) == schema_name_of(n.args[1])
DeclAttrArg(n) == n.args[IF n.name = "schema" THEN 2 ELSE 3]

Returned == schemas.list
NamesOf(list) == [i \in 1..Len(list) |-> list[i].schema_name]

\* The declarations in the documented order of the result: a declaration,
\* then the declarations inside the arguments of the attribute calls of its
\* attribute argument, then the declarations below each of its arguments.
RECURSIVE DeclsInOrder(_), DeclsInsideAttrs(_)

DeclsInOrder(d) ==
  Concat([i \in 1..Len(d) |->
    IF d[i].kind # "Fn" \/ IsAttr(d[i]) THEN <<>>
    ELSE IF IsDecl(d[i])
      THEN <<d[i]>> \o DeclsInsideAttrs(DeclAttrArg(d[i]))
             \o Concat([j \in 1..Len(d[i].args) |->
                          DeclsInOrder(d[i].args[j])])
      ELSE Concat([j \in 1..Len(d[i].args) |-> DeclsInOrder(d[i].args[j])])])

DeclsInsideAttrs(d) ==
  Concat([i \in 1..Len(d) |->
    IF d[i].kind # "Fn" \/ IsDecl(d[i]) THEN <<>>
    ELSE IF IsAttr(d[i])
      THEN Concat([j \in 1..Len(d[i].args) |-> DeclsInOrder(d[i].args[j])])
      ELSE Concat([j \in 1..Len(d[i].args) |->
                     DeclsInsideAttrs(d[i].args[j])])])

\* the group declarations that are immediate children of a declaration:
\* below its arguments, with no declaration and no attribute call between
RECURSIVE ImmediateGroups(_)
ImmediateGroups(d) ==
  Concat([i \in 1..Len(d) |->
    IF d[i].kind # "Fn" \/ IsAttr(d[i]) THEN <<>>
    ELSE IF IsDecl(d[i])
      THEN (IF d[i].name = "schema-group" THEN <<DeclName(d[i])>> ELSE <<>>)
      ELSE Concat([j \in 1..Len(d[i].args) |->
                     ImmediateGroups(d[i].args[j])])])

ImmediateGroupsOf(n) ==
  Concat([j \in 1..Len(n.args) |-> ImmediateGroups(n.args[j])])

Range(f) == {f[i] : i \in DOMAIN f}

\* C1: for a schema or schema-group call the records come in this order:
\* the record of the call, then the inner schemas found inside the
\* arguments of the attribute calls of its attribute argument, then the
\* child schemas found by walking every argument of the call; the results
\* of the nodes of a list are concatenated in node order.
C1_OwnInnerChildrenOrder ==
  schemas.t = "Ok" =>
    LET decls == DeclsInOrder(doc)
    IN /\ NamesOf(Returned) = [i \in 1..Len(decls) |-> DeclName(decls[i])]
       /\ \A i \in 1..Len(decls) :
            Returned[i].is_group_member = (decls[i].name = "schema-group")

\* a declaration with a child declaration in front of an attribute call
\* that holds an inner declaration has been converted
C1_Witness ==
  /\ schemas.t = "Ok"
  /\ Len(doc) = 1 /\ IsDecl(doc[1])
  /\ LET body == DeclAttrArg(doc[1])
     IN /\ Len(body) = 2
        /\ IsDecl(body[1])
        /\ IsAttr(body[2])
        /\ DeclsInsideAttrs(body) # <<>>
  /\ Len(Returned) = 3

\* C2: the group_members of every returned record are the schema_names of
\* the immediate child declarations of its call that are declared with
\* schema-group, in encounter order; a group member nested deeper is not
\* listed in the group_members of the outer schema.
C2_GroupMembersAreImmediateChildren ==
  schemas.t = "Ok" =>
    LET decls == DeclsInOrder(doc)
    IN \A i \in 1..Len(decls) :
         i <= Len(Returned) =>
           Returned[i].group_members = ImmediateGroupsOf(decls[i])

\* C3: the attributes of a call, when there are any, are merged into the
\* properties of every immediate child that is a group member, the parent's
\* property replacing the child's of the same name; every other record
\* keeps the properties it had before the merge; with no attributes no
\* child is changed.
C3_MergeOnlyIntoImmediateGroupMembers ==
  (schemas.t = "Ok" /\ Len(doc) = 1 /\ IsDecl(doc[1])) =>
    LET call == doc[1]
        collected == collect_attributes(DeclAttrArg(call))
        own == from_pairs([i \in 1..Len(collected) |-> collected[i].prop])
        inner == Concat([i \in 1..Len(collected) |-> collected[i].inner])
        before == Concat([j \in 1..Len(call.args) |->
                            collect_schemas(call.args[j])])
        after == SubSeq(Returned, 2 + Len(inner), Len(Returned))
        members == Range(ImmediateGroupsOf(call))
    IN /\ Len(after) = Len(before)
       /\ \A i \in 1..Len(before) :
            after[i] =
              IF DOMAIN own # {} /\ before[i].schema_name \in members
                THEN [before[i] EXCEPT !.properties = extend(@, own)]
                ELSE before[i]

\* C4: every returned record with group members has no properties, also
\* after an enclosing schema has merged its attributes into its
\* group-member children.
C4_GroupRecordHasNoProperties ==
  schemas.t = "Ok" =>
    \A i \in 1..Len(Returned) :
      Returned[i].group_members # <<>> => DOMAIN Returned[i].properties = {}

\* every function call of a document, at any depth
RECURSIVE CallsIn(_)
CallsIn(d) ==
  UNION {IF d[i].kind # "Fn" THEN {}
         ELSE {d[i]} \cup UNION {CallsIn(d[i].args[j]) :
                                   j \in 1..Len(d[i].args)} :
         i \in 1..Len(d)}

\* the attribute calls the attribute collector converts: those in the
\* attribute argument of a declaration the walker reaches, below calls
\* that are neither declarations nor attribute calls
RECURSIVE ConvertedAttrs(_), ConvertedAttrsOfBody(_)

ConvertedAttrs(d) ==
  UNION {IF d[i].kind # "Fn" \/ IsAttr(d[i]) THEN {}
         ELSE (IF IsDecl(d[i]) THEN ConvertedAttrsOfBody(DeclAttrArg(d[i]))
               ELSE {})
                \cup UNION {ConvertedAttrs(d[i].args[j]) :
                              j \in 1..Len(d[i].args)} :
         i \in 1..Len(d)}

ConvertedAttrsOfBody(d) ==
  UNION {IF d[i].kind # "Fn" \/ IsDecl(d[i]) THEN {}
         ELSE IF IsAttr(d[i])
           THEN {d[i]} \cup UNION {ConvertedAttrs(d[i].args[j]) :
                                     j \in 1..Len(d[i].args)}
           ELSE UNION {ConvertedAttrsOfBody(d[i].args[j]) :
                         j \in 1..Len(d[i].args)} :
         i \in 1..Len(d)}

\* the declarations have a name argument and an attribute argument, and
\* the formatting calls have the arguments the renderer indexes
NeededArgs(n) ==
  CASE n.name = "schema" -> 2
    [] n.name = "schema-group" -> 3
    [] n.name \in {"example-toggle", "codeblock"} -> 2
    [] n.name \in {"code", "bold", "warn"} -> 1
    [] OTHER -> 0

CallsHaveArgs(d) == \A n \in CallsIn(d) : Len(n.args) >= NeededArgs(n)

\* an attribute call with fewer than 3 arguments, or whose type text, with
\* "-" replaced by "_", does not match the grammar
Malformed(n) ==
  \/ Len(n.args) < 3
  \/ /\ ~text_to_markdown_panics(n.args[2])
     /\ parse_type(replace(trim(text_to_markdown(n.args[2])),
                           <<"-">>, <<"_">>)) = Panic

\* C7 as claimed: a document with a malformed attribute call anywhere in
\* it makes to_jsonschemas abort; every other document whose schema calls
\* have the needed arguments is converted.  (Read here in the claim's
\* favour: only documents whose formatting calls have their arguments
\* too are looked at.)
C7_MalformedAttributeAnywhereAborts ==
  (schemas # NotRun /\ CallsHaveArgs(doc)) =>
    LET malformed == \E n \in CallsIn(doc) : IsAttr(n) /\ Malformed(n)
    IN /\ malformed => schemas = Panic
       /\ ~malformed => schemas.t = "Ok"

\* C7 as amended: among the documents whose schema calls and formatting
\* calls have the arguments they need, to_jsonschemas aborts exactly for
\* those with a malformed attribute call that the attribute collector
\* converts; a malformed attribute call in any other place is skipped.
C7_MalformedConvertedAttributeAborts ==
  (schemas # NotRun /\ CallsHaveArgs(doc)) =>
    (schemas = Panic <=> \E n \in ConvertedAttrs(doc) : Malformed(n))

\* a document with a malformed attribute call that is not converted has
\* been converted without an abort
C7_Witness ==
  /\ schemas.t = "Ok"
  /\ CallsHaveArgs(doc)
  /\ \E n \in CallsIn(doc) : IsAttr(n) /\ Malformed(n)
  /\ Len(Returned) > 0

\* every declaration of a document, with whether an attribute call lies
\* around it
RECURSIVE DeclSites(_, _)
DeclSites(d, inAttr) ==
  UNION {IF d[i].kind # "Fn" THEN {}
         ELSE (IF IsDecl(d[i])
                 THEN {[name |-> DeclName(d[i]), inAttr |-> inAttr]}
                 ELSE {})
                \cup UNION {DeclSites(d[i].args[j], inAttr \/ IsAttr(d[i])) :
                              j \in 1..Len(d[i].args)} :
         i \in 1..Len(d)}

\* every attribute call of a document that has its three arguments, with
\* the name and documentation of its property and the nearest declaration
\* around it (encl is empty when there is none)
RECURSIVE AttrSites(_, _)
AttrSites(d, encl) ==
  UNION {IF d[i].kind # "Fn" THEN {}
         ELSE (IF IsAttr(d[i]) /\ Len(d[i].args) >= 3
                 THEN {[name |-> trim(text_to_markdown(d[i].args[1])),
                        docs |-> trim(text_to_markdown(d[i].args[3])),
                        encl |-> encl]}
                 ELSE {})
                \cup UNION {AttrSites(d[i].args[j],
                                      IF IsDecl(d[i]) THEN <<d[i]>> ELSE encl) :
                              j \in 1..Len(d[i].args)} :
         i \in 1..Len(d)}

Holds(r, site) ==
  /\ site.name \in DOMAIN r.properties
  /\ r.properties[site.name].docs = site.docs

Holders(site) == {i \in 1..Len(Returned) : Holds(Returned[i], site)}

RecordsNamed(name) ==
  {i \in 1..Len(Returned) : Returned[i].schema_name = name}

OneRecordPerDecl ==
  \A site \in DeclSites(doc, FALSE) :
    /\ Cardinality(RecordsNamed(site.name)) <= 1
    /\ ~site.inAttr => Cardinality(RecordsNamed(site.name)) = 1

\* C10 as claimed: every schema or schema-group call gives at most one
\* record, and exactly one when no attribute call lies around it; every
\* attribute call gives its property to at most one schema, the nearest
\* schema call around it.
C10_PropertyOnlyInNearestSchema ==
  (schemas.t = "Ok" /\ CallsHaveArgs(doc)) =>
    /\ OneRecordPerDecl
    /\ \A site \in AttrSites(doc, <<>>) :
         /\ Cardinality(Holders(site)) <= 1
         /\ \A i \in Holders(site) :
              /\ site.encl # <<>>
              /\ Returned[i].schema_name = DeclName(site.encl[1])

\* C10 as amended: every schema or schema-group call gives at most one
\* record, and exactly one when no attribute call lies around it; every
\* attribute call is converted for at most one schema call, the nearest
\* around it, and its property is held by the record of that call or, by
\* the merge of that call's attributes, by records of group members found
\* below that call, and by no other record.
C10_PropertyOnlyBelowNearestSchema ==
  (schemas.t = "Ok" /\ CallsHaveArgs(doc)) =>
    /\ OneRecordPerDecl
    /\ \A site \in AttrSites(doc, <<>>) :
         \A i \in Holders(site) :
           /\ site.encl # <<>>
           /\ \/ Returned[i].schema_name = DeclName(site.encl[1])
              \/ /\ Returned[i].is_group_member
                 /\ \E j \in 1..Len(site.encl[1].args) :
                      \E n \in Range(DeclsInOrder(site.encl[1].args[j])) :
                        DeclName(n) = Returned[i].schema_name

\* a document has been converted in which a schema has an inner schema
\* inside an attribute call, every attribute call is converted, and the
\* property of one of them is held by two group members
C10_Witness ==
  /\ schemas.t = "Ok"
  /\ CallsHaveArgs(doc)
  /\ \E site \in DeclSites(doc, FALSE) : site.inAttr
  /\ \A site \in AttrSites(doc, <<>>) : Holders(site) # {}
  /\ \E site \in AttrSites(doc, <<>>) : Cardinality(Holders(site)) >= 2

====
